---- MODULE Spec2Model ----
(***************************************************************************)
(* AI Legal Document Analyzer: the Streamlit dashboard of src/code/app.py  *)
(* as a state machine.  One action is one run of the script, started by a  *)
(* button click or a widget change; the JSON files, the activity log and   *)
(* st.session_state are the state.  The analysis engine (legal_core) is    *)
(* not part of the sources; its five functions are written from the        *)
(* design document and are marked as such.                                 *)
(*                                                                         *)
(* Text is a sequence of one-character strings.                            *)
(***************************************************************************)
EXTENDS Integers, Sequences, FiniteSets, TLC

VARIABLES
    session_user,   \* st.session_state["user"], or NoUser when the key is absent
    users,          \* users.json: email -> password hash
    history,        \* history.json: user -> list of {file, type, risk}
    log,            \* activity_log.txt: the lines appended, as <<action, email>>
    mail,           \* the calls of send_email_notification, in order
    run,            \* what the last run of the script did and rendered
    arg,            \* input of the engine function under study
    res             \* its result, NoRes before the call

vars == <<session_user, users, history, log, mail, run, arg, res>>

(***************************************************************************)
(* Bounds of the model.                                                    *)
(***************************************************************************)
MaxLog == 4
MaxHistory == 3
MaxSaved == 1
MaxPad == 1
MaxPages == 2
MaxCmpLen == 3
MaxSentences == 5
MaxN == 4
MaxClauseTextLen == 3

(***************************************************************************)
(* Program constants.                                                      *)
(***************************************************************************)
MinPasswordLen == 8
OcrThreshold == 20
MinTextLen == 20
SummarySentences == 4
ExcerptCap == 200
PreviewCap == 4000
VerySimilarAbove == 80
ModerateAbove == 50

NoUser == "<no user>"
NoRes == [kind |-> "none"]
NoArg == [kind |-> "none"]

(***************************************************************************)
(* Text primitives (Python str operations used by app.py).                 *)
(***************************************************************************)
Min(S) == CHOOSE x \in S : \A y \in S : x <= y
Max(S) == CHOOSE x \in S : \A y \in S : x >= y

Rep(c, n) == SubSeq([i \in 1..n |-> c], 1, n)

WhitespaceChars == {" ", "\n", "\t"}

LowerChars == {"a","b","c","d","e","f","g","h","i","j","k","l","m",
               "n","o","p","q","r","s","t","u","v","w","x","y","z"}
UpperChars == {"A","B","C","D","E","F","G","H","I","J","K","L","M",
               "N","O","P","Q","R","S","T","U","V","W","X","Y","Z"}
DigitChars == {"0","1","2","3","4","5","6","7","8","9"}
SpecialChars == {"!","@","#","$","%","^","&","*","(",")","_","+","-","=",
                 "[","]","{","}","|",";",":",",",".","<",">","?","/","\\","\""}

\* str.strip(): leading and trailing whitespace removed
strip(s) ==
    LET keep == {i \in 1..Len(s) : s[i] \notin WhitespaceChars}
    IN  IF keep = {} THEN <<>> ELSE SubSeq(s, Min(keep), Max(keep))

\* s[:n]
Prefix(s, n) == SubSeq(s, 1, IF Len(s) < n THEN Len(s) ELSE n)

Marker == <<".", ".", ".">>

(***************************************************************************)
(* Passwords and the user store.                                           *)
(***************************************************************************)
strong_password(pw) ==
    /\ ~(Len(pw) < MinPasswordLen)
    /\ \E i \in 1..Len(pw) : pw[i] \in LowerChars
    /\ \E i \in 1..Len(pw) : pw[i] \in UpperChars
    /\ \E i \in 1..Len(pw) : pw[i] \in DigitChars
    /\ \E i \in 1..Len(pw) : pw[i] \in SpecialChars

\* sha256(pw).hexdigest(): taken as collision-free on the passwords of the model
hash_password(pw) == <<"sha256">> \o pw

\* faulty variant: the password is not compared
verify_user_AnyPassword(email, pw) == email \in DOMAIN users

verify_user(email, pw) ==
    /\ email \in DOMAIN users
    /\ users[email] = hash_password(pw)

\* d[k] = v on a dict
Put(d, k, v) == [x \in DOMAIN d \cup {k} |-> IF x = k THEN v ELSE d[x]]

Emails == {"alice@example.com", "bob@example.com"}

PwStrongA == <<"A","b","c","d","e","f","1","!">>
PwStrongB == <<"Z","y","x","w","v","u","2","#">>
PwShort == <<"A","b","1","!">>
PwNoSpecial == <<"A","b","c","d","e","f","g","1">>
Passwords == {PwStrongA, PwStrongB, PwShort, PwNoSpecial}

(***************************************************************************)
(* The analysis engine, legal_core.  Its source is not in the repository   *)
(* files; the definitions below follow the design document (sections 3, 4).*)
(***************************************************************************)
UpperSeq == <<"A","B","C","D","E","F","G","H","I","J","K","L","M",
              "N","O","P","Q","R","S","T","U","V","W","X","Y","Z">>
LowerSeq == <<"a","b","c","d","e","f","g","h","i","j","k","l","m",
              "n","o","p","q","r","s","t","u","v","w","x","y","z">>

LowerOf == [c \in UpperChars |->
               LowerSeq[CHOOSE i \in 1..Len(UpperSeq) : UpperSeq[i] = c]]

ToLower(c) == IF c \in UpperChars THEN LowerOf[c] ELSE c

\* a sequence given as a function on 1..n, as a tuple
Tuple(f) == <<>> \o f

CaseFold(s) == Tuple([i \in 1..Len(s) |-> ToLower(s[i])])

\* every start index of p in s
Occurrences(s, p) ==
    {i \in 1..(Len(s) - Len(p) + 1) : SubSeq(s, i, i + Len(p) - 1) = p}

RECURSIVE SplitAt(_, _)
\* the segments of s between the characters of seps, the separators dropped
SplitAt(s, seps) ==
    LET hits == {i \in 1..Len(s) : s[i] \in seps}
    IN  IF hits = {}
        THEN <<s>>
        ELSE LET k == Min(hits)
             IN  <<SubSeq(s, 1, k - 1)>> \o SplitAt(SubSeq(s, k + 1, Len(s)), seps)

NonEmpty(s) == s # <<>>

\* the elements of seq at the indices of idx, in increasing index order
RECURSIVE PickAscending(_, _)
PickAscending(seq, idx) ==
    IF idx = {} THEN <<>>
    ELSE LET k == Min(idx)
         IN  <<seq[k]>> \o PickAscending(seq, idx \ {k})

RECURSIVE SumSeq(_)
SumSeq(q) == IF q = <<>> THEN 0 ELSE Head(q) + SumSeq(Tail(q))

\* 4.1 Clause Catalog: name, detection patterns, criticality, in declaration order
Catalog == <<
    [name |-> "Termination Clause", criticality |-> "Critical",
     patterns |-> << <<"t">> >>],
    [name |-> "Confidentiality", criticality |-> "Standard",
     patterns |-> << <<"c">> >>],
    [name |-> "Indemnity", criticality |-> "Critical",
     patterns |-> << <<"i">> >>],
    [name |-> "Governing Law", criticality |-> "Critical",
     patterns |-> << <<"g", "l">>, <<"g", "b">> >>],
    [name |-> "Payment Terms", criticality |-> "Standard",
     patterns |-> << <<"p">> >>],
    [name |-> "Limitation of Liability", criticality |-> "Standard",
     patterns |-> << <<"l", "l">> >>] >>

CatalogNames == [k \in 1..Len(Catalog) |-> Catalog[k].name]

NonNegotiable == "Governing Law"
HighMissingCritical == 2
MediumMissingCritical == 1
MediumMissingStandard == 2

\* the first physical occurrence of any pattern of the definition, 0 when none
FirstMatch(folded, def) ==
    LET hits == UNION {Occurrences(folded, CaseFold(def.patterns[j])) :
                          j \in 1..Len(def.patterns)}
    IN  IF hits = {} THEN 0 ELSE Min(hits)

\* the window following the match start, cut to the cap with a marker
ExcerptAt(text, pos) ==
    LET raw == SubSeq(text, pos, Len(text))
    IN  IF Len(raw) > ExcerptCap THEN Prefix(raw, ExcerptCap) \o Marker ELSE raw

\* 4.2 Clause Detector: one result per catalog definition, in catalog order.
\* The mapping clause -> {found, excerpt} is a sequence: a dict keeps its
\* insertion order.
detect_clauses_with_excerpts(text) ==
    LET folded == CaseFold(text)
    IN  Tuple([k \in 1..Len(Catalog) |->
            LET pos == FirstMatch(folded, Catalog[k])
            IN  [clause |-> Catalog[k].name,
                 info |-> [found |-> pos # 0,
                           excerpt |-> IF pos = 0 THEN <<>>
                                       ELSE ExcerptAt(text, pos)]]])

Criticality(name) ==
    LET ks == {k \in 1..Len(Catalog) : Catalog[k].name = name}
    IN  IF ks = {} THEN "Standard" ELSE Catalog[Min(ks)].criticality

MissingOf(clauses, crit) ==
    {k \in 1..Len(clauses) :
        ~clauses[k].info.found /\ Criticality(clauses[k].clause) = crit}

\* faulty variant: High only for exactly two missing critical clauses
assess_risk_ExactlyTwo(clauses) ==
    LET mc == MissingOf(clauses, "Critical")
        ms == MissingOf(clauses, "Standard")
        names(idx) == PickAscending([k \in 1..Len(clauses) |-> clauses[k].clause], idx)
    IN  IF Cardinality(mc) = HighMissingCritical
        THEN <<"High", names(mc)>>
        ELSE IF Cardinality(mc) = MediumMissingCritical
                \/ Cardinality(ms) >= MediumMissingStandard
        THEN <<"Medium", names(mc \cup ms)>>
        ELSE <<"Low", names(mc \cup ms)>>

\* 4.4 Risk Assessor: <<level, rationale>>, the rationale naming the missing
\* clauses that drove the level
assess_risk(clauses) ==
    LET mc == MissingOf(clauses, "Critical")
        ms == MissingOf(clauses, "Standard")
        names(idx) == PickAscending([k \in 1..Len(clauses) |-> clauses[k].clause], idx)
        nonneg == \E k \in mc : clauses[k].clause = NonNegotiable
    IN  IF Cardinality(mc) >= HighMissingCritical \/ nonneg
        THEN <<"High", names(mc)>>
        ELSE IF Cardinality(mc) = MediumMissingCritical
                \/ Cardinality(ms) >= MediumMissingStandard
        THEN <<"Medium", names(mc \cup ms)>>
        ELSE <<"Low", names(mc \cup ms)>>

\* 4.3 Contract Type Classifier: signature keywords per type, in priority order
TypeSignatures == <<
    [label |-> "Non-Disclosure Agreement", keywords |-> << <<"c">> >>],
    [label |-> "Service Agreement", keywords |-> << <<"p">>, <<"t">> >>] >>
FallbackType == "General Agreement"
MinTypeScore == 1

TypeScore(folded, sig) ==
    SumSeq(Tuple([j \in 1..Len(sig.keywords) |->
               Cardinality(Occurrences(folded, CaseFold(sig.keywords[j])))]))

\* the best score wins, the earlier declared type among equals; below the
\* minimum score the fallback label
detect_contract_type(text) ==
    LET folded == CaseFold(text)
        score == Tuple([k \in 1..Len(TypeSignatures) |->
                           TypeScore(folded, TypeSignatures[k])])
        best == CHOOSE k \in 1..Len(TypeSignatures) :
                    \A j \in 1..Len(TypeSignatures) :
                        score[k] > score[j] \/ (score[k] = score[j] /\ k <= j)
    IN  IF score[best] < MinTypeScore THEN FallbackType
        ELSE TypeSignatures[best].label

\* 4.5 Extractive Summarizer
Terminators == {".", "?", "!"}
Stopwords == {<<"a">>, <<"o", "f">>}

Sentences(text) ==
    LET segs == SplitAt(text, Terminators)
    IN  SelectSeq(Tuple([k \in 1..Len(segs) |-> strip(segs[k])]), NonEmpty)

Words(s) == SelectSeq(SplitAt(CaseFold(s), WhitespaceChars), NonEmpty)

IsContent(w) == w \notin Stopwords

\* the frequency of w among the words of the document, stopwords excluded
WordFrequency(all, w) ==
    IF IsContent(w) THEN Cardinality({i \in 1..Len(all) : all[i] = w}) ELSE 0

SentenceScore(all, s) ==
    LET ws == Words(s)
    IN  SumSeq(Tuple([i \in 1..Len(ws) |-> WordFrequency(all, ws[i])]))

\* the indices of the n best sentences: higher score first, earlier sentence
\* first among equals
TopIndices(text, ss, n) ==
    LET all == Words(text)
        sc == Tuple([k \in 1..Len(ss) |-> SentenceScore(all, ss[k])])
        before(j, k) == sc[j] > sc[k] \/ (sc[j] = sc[k] /\ j < k)
    IN  {k \in 1..Len(ss) : Cardinality({j \in 1..Len(ss) : before(j, k)}) < n}

\* the n best sentences, put back in document order
summarize_text(text, n) ==
    IF n <= 0 THEN <<>>
    ELSE LET ss == Sentences(text)
         IN  PickAscending(ss, TopIndices(text, ss, n))

\* 4.6 Document Comparator: overlap of the two token multisets, as a percentage
Tokens(text) == Words(text)

TokenCount(toks, w) == Cardinality({i \in 1..Len(toks) : toks[i] = w})

\* the size of the intersection of the two token multisets
SharedTokens(a, b) ==
    LET ta == Tokens(a)
        tb == Tokens(b)
        least(w) == IF TokenCount(ta, w) < TokenCount(tb, w)
                    THEN TokenCount(ta, w) ELSE TokenCount(tb, w)
        first(i) == \A j \in 1..(i - 1) : ta[j] # ta[i]
    IN  SumSeq(Tuple([i \in 1..Len(ta) |-> IF first(i) THEN least(ta[i]) ELSE 0]))

compare_versions(t1, t2) ==
    LET total == Len(Tokens(t1)) + Len(Tokens(t2))
        shared == SharedTokens(t1, t2)
    IN  IF total = 0 THEN 100
        ELSE (2 * 200 * shared + total) \div (2 * total)

(***************************************************************************)
(* app.py: accounts.                                                       *)
(***************************************************************************)
Notify(subject, email) == Append(mail, [subject |-> subject, email |-> email])
LogLine(action, email) == Append(log, <<action, email>>)

AuthRun(event, email, pw, msg) ==
    [page |-> "login", event |-> event, email |-> email, pw |-> pw, msg |-> msg]

\* what the rerun after a login renders: the Analyze page, its widgets empty
FirstDashboardRun(email, pw) ==
    [page |-> "analyze", event |-> "login", email |-> email, pw |-> pw,
     outcome |-> "idle"]

\* faulty variant: the membership test is missing
register_user_Overwrite(email, pw) ==
    [ok |-> TRUE,
     users |-> Put(users, email, hash_password(pw)),
     mail |-> Notify("New User Registered", email),
     log |-> LogLine("User Registered", email)]

\* register_user: the new store, or the old one when the email is taken
register_user(email, pw) ==
    IF email \in DOMAIN users
    THEN [ok |-> FALSE, users |-> users, mail |-> mail, log |-> log]
    ELSE [ok |-> TRUE,
          users |-> Put(users, email, hash_password(pw)),
          mail |-> Notify("New User Registered", email),
          log |-> LogLine("User Registered", email)]

reset_password(email, new_pw) ==
    IF email \notin DOMAIN users
    THEN [ok |-> FALSE, users |-> users, mail |-> mail, log |-> log]
    ELSE [ok |-> TRUE,
          users |-> Put(users, email, hash_password(new_pw)),
          mail |-> Notify("Password Reset", email),
          log |-> LogLine("Password Reset", email)]

\* main(): the login page is shown when "user" is not in the session
OnLoginPage == session_user = NoUser
OnDashboard == session_user # NoUser

Login(email, pw) ==
    /\ OnLoginPage
    /\ Len(log) < MaxLog
    /\ IF verify_user(email, pw)
       THEN /\ session_user' = email
            /\ mail' = Notify("User Logged In", email)
            /\ log' = LogLine("User Logged In", email)
            /\ run' = FirstDashboardRun(email, pw)
       ELSE /\ run' = AuthRun("login", email, pw, "Incorrect email or password.")
            /\ UNCHANGED <<session_user, mail, log>>
    /\ UNCHANGED <<users, history, arg, res>>

Register(email, pw) ==
    /\ OnLoginPage
    /\ Len(log) < MaxLog
    /\ IF ~strong_password(pw)
       THEN /\ run' = AuthRun("register", email, pw,
                "Password must be 8+ chars with upper, lower, digit, special char.")
            /\ UNCHANGED <<users, mail, log>>
       ELSE LET r == register_user(email, pw)
            IN  /\ users' = r.users
                /\ mail' = r.mail
                /\ log' = r.log
                /\ run' = AuthRun("register", email, pw,
                                  IF r.ok THEN "Registered! Please login."
                                  ELSE "Email already registered.")
    /\ UNCHANGED <<session_user, history, arg, res>>

ResetPassword(email, pw) ==
    /\ OnLoginPage
    /\ Len(log) < MaxLog
    /\ IF ~strong_password(pw)
       THEN /\ run' = AuthRun("reset", email, pw,
                "Weak password. Use upper/lower/digit/special and 8+ length.")
            /\ UNCHANGED <<users, mail, log>>
       ELSE LET r == reset_password(email, pw)
            IN  /\ users' = r.users
                /\ mail' = r.mail
                /\ log' = r.log
                /\ run' = AuthRun("reset", email, pw,
                                  IF r.ok THEN "Password reset successful!"
                                  ELSE "Email not found.")
    /\ UNCHANGED <<session_user, history, arg, res>>

\* the Logout menu entry: the key is deleted and the rerun shows the login page
Logout ==
    /\ OnDashboard
    /\ session_user' = NoUser
    /\ run' = [page |-> "login", event |-> "logout"]
    /\ UNCHANGED <<users, history, log, mail, arg, res>>

(***************************************************************************)
(* app.py: the dashboard pages.                                            *)
(***************************************************************************)
\* an uploaded PDF: its name, what digital extraction returns for it, what
\* OCR reads on each of its pages, and where OCR raises (0: convert_from_path
\* raises, k: image_to_string raises on page k, Len(pages) + 1: nowhere)
NoFile == [present |-> FALSE, name |-> "", digital |-> <<>>, pages |-> <<>>,
           fail_at |-> 1]

Pdf(name, digital, pages, fail_at) ==
    [present |-> TRUE, name |-> name, digital |-> digital, pages |-> pages,
     fail_at |-> fail_at]

RECURSIVE Concat(_)
Concat(parts) == IF parts = <<>> THEN <<>> ELSE Head(parts) \o Concat(Tail(parts))

\* legal_core.extract_text_from_pdf: the text acquisition collaborator
extract_text_from_pdf(pdf) == pdf.digital

\* the text accumulated up to the exception is kept; the exception is reported
\* with st.error and not raised again
extract_text_with_ocr(pdf) ==
    LET n == Len(pdf.pages)
        failed == pdf.fail_at <= n
        read == IF ~failed THEN n
                ELSE IF pdf.fail_at = 0 THEN 0 ELSE pdf.fail_at - 1
    IN  [text |-> strip(Concat(SubSeq(pdf.pages, 1, read))),
         error_shown |-> failed,
         raised |-> FALSE]

HasInput(uploaded, manual_text) == uploaded.present \/ strip(manual_text) # <<>>

\* faulty variant: <= for <
NeedsOcr_Inclusive(text) == Len(text) <= OcrThreshold

NeedsOcr(text) == Len(text) < OcrThreshold

\* faulty variant: only an empty text is refused
Unreadable_OnlyEmpty(text) == Len(text) = 0

Unreadable(text) == Len(text) < MinTextLen

\* lines 214-223: the text of the run and how it was obtained
AcquireText(uploaded, manual_text) ==
    IF uploaded.present
    THEN LET digital == extract_text_from_pdf(uploaded)
         IN  IF NeedsOcr(digital)
             THEN LET o == extract_text_with_ocr(uploaded)
                  IN  [text |-> o.text, ocr_calls |-> 1,
                       ocr_failed |-> o.error_shown, raised |-> o.raised]
             ELSE [text |-> digital, ocr_calls |-> 0,
                   ocr_failed |-> FALSE, raised |-> FALSE]
    ELSE [text |-> manual_text, ocr_calls |-> 0,
          ocr_failed |-> FALSE, raised |-> FALSE]

\* lines 275-291: one box per item of the mapping, in its order
ShownExcerpt(info) ==
    IF info.found /\ info.excerpt # <<>>
    THEN Prefix(info.excerpt, ExcerptCap) \o Marker
    ELSE <<>>

ClauseBox(item) ==
    [clause |-> item.clause,
     status |-> IF item.info.found THEN "Found" ELSE "Missing",
     excerpt |-> ShownExcerpt(item.info)]

IsFound(item) == item.info.found
IsMissing(item) == ~item.info.found

\* faulty variant: the found clauses first, the missing ones after them
RenderClauses_FoundFirst(clauses) ==
    LET sorted == SelectSeq(clauses, IsFound) \o SelectSeq(clauses, IsMissing)
    IN  Tuple([k \in 1..Len(sorted) |-> ClauseBox(sorted[k])])

RenderClauses(clauses) ==
    Tuple([k \in 1..Len(clauses) |-> ClauseBox(clauses[k])])

\* faulty variant: one sentence too many
AppSummary_OneMore(text) == summarize_text(text, SummarySentences + 1)

\* line 235
AppSummary(text) == summarize_text(text, SummarySentences)

\* line 237
HistoryFileName(uploaded) == IF uploaded.present THEN uploaded.name ELSE "Manual Text"

\* faulty variant: the list is replaced by the new entry
save_history_Replace(user, doc_type, risk, filename) ==
    Put(history, user, <<[file |-> filename, type |-> doc_type, risk |-> risk]>>)

save_history(user, doc_type, risk, filename) ==
    LET h == IF user \in DOMAIN history THEN history ELSE Put(history, user, <<>>)
        entry == [file |-> filename, type |-> doc_type, risk |-> risk]
    IN  Put(h, user, Append(h[user], entry))

HistoryOf(user) == IF user \in DOMAIN history THEN history[user] ELSE <<>>

RECURSIVE TotalEntries(_, _)
TotalEntries(h, keys) ==
    IF keys = {} THEN 0
    ELSE LET k == CHOOSE k \in keys : TRUE
         IN  Len(h[k]) + TotalEntries(h, keys \ {k})

HistoryTotal == TotalEntries(history, DOMAIN history)

\* the Analyze Document page with the widgets holding uploaded and manual_text
AnalyzeDocument(uploaded, manual_text) ==
    /\ OnDashboard
    /\ LET user == session_user
           acq == AcquireText(uploaded, manual_text)
           text == acq.text
           base == [page |-> "analyze", event |-> "analyze",
                    uploaded |-> uploaded, manual_text |-> manual_text]
       IN  IF ~HasInput(uploaded, manual_text)
           THEN /\ run' = base @@ [outcome |-> "idle", calls |-> <<>>,
                                   ocr_calls |-> 0]
                /\ UNCHANGED history
           ELSE IF acq.raised
           THEN /\ run' = base @@ [outcome |-> "exception", calls |-> <<>>,
                                   ocr_calls |-> acq.ocr_calls]
                /\ UNCHANGED history
           ELSE IF Unreadable(text)
           THEN /\ run' = base @@ [outcome |-> "error",
                                   msg |-> "Could not extract readable text.",
                                   text |-> text, calls |-> <<>>,
                                   ocr_calls |-> acq.ocr_calls,
                                   ocr_failed |-> acq.ocr_failed]
                /\ UNCHANGED history
           ELSE LET doc_type == detect_contract_type(text)
                    clauses == detect_clauses_with_excerpts(text)
                    risk == assess_risk(clauses)
                    summary == AppSummary(text)
                    filename == HistoryFileName(uploaded)
                IN  /\ run' = base @@
                                [outcome |-> "analyzed", text |-> text,
                                 ocr_calls |-> acq.ocr_calls,
                                 ocr_failed |-> acq.ocr_failed,
                                 calls |-> << <<"detect_contract_type", text>>,
                                              <<"detect_clauses_with_excerpts", text>>,
                                              <<"assess_risk", clauses>>,
                                              <<"summarize_text", text>>,
                                              <<"save_history", user>> >>,
                                 doc_type |-> doc_type, clauses |-> clauses,
                                 risk_level |-> risk[1], risk_comment |-> risk[2],
                                 summary |-> summary,
                                 boxes |-> RenderClauses(clauses),
                                 preview |-> Prefix(text, PreviewCap)
                                             \o (IF Len(text) > PreviewCap
                                                 THEN Marker ELSE <<>>)]
                    /\ history' = save_history(user, doc_type, risk[1], filename)
    /\ UNCHANGED <<session_user, users, log, mail>>

\* lines 313-318
Verdict(sim) ==
    IF sim > VerySimilarAbove THEN "very similar"
    ELSE IF sim > ModerateAbove THEN "moderate differences"
    ELSE "significant differences"

\* faulty variant: the first text is compared with itself
CompareSim_SameFile(t1, t2) == compare_versions(t1, t1)

\* line 311
CompareSim(t1, t2) == compare_versions(t1, t2)

\* the Compare Documents page; nothing is computed until both files are there
CompareDocuments(f1, f2) ==
    /\ OnDashboard
    /\ IF f1.present /\ f2.present
       THEN LET t1 == extract_text_from_pdf(f1)
                t2 == extract_text_from_pdf(f2)
                sim == CompareSim(t1, t2)
            IN  run' = [page |-> "compare", event |-> "compare", shown |-> TRUE,
                        t1 |-> t1, t2 |-> t2, sim |-> sim, verdict |-> Verdict(sim)]
       ELSE run' = [page |-> "compare", event |-> "compare", shown |-> FALSE]
    /\ UNCHANGED <<session_user, users, history, log, mail>>

\* the Reports page
Reports ==
    /\ OnDashboard
    /\ LET user_history == HistoryOf(session_user)
       IN  run' = [page |-> "reports", event |-> "reports",
                   items |-> user_history,
                   msg |-> IF user_history = <<>> THEN "No reports yet." ELSE ""]
    /\ UNCHANGED <<session_user, users, history, log, mail, arg, res>>

IsLow(d) == d.risk = "Low"
IsMedium(d) == d.risk = "Medium"
IsHigh(d) == d.risk = "High"

\* the Risk Analysis page
RiskAnalysis ==
    /\ OnDashboard
    /\ LET user_history == HistoryOf(session_user)
       IN  IF user_history = <<>>
           THEN run' = [page |-> "risk", event |-> "risk", counted |-> FALSE,
                        msg |-> "No analyzed documents yet."]
           ELSE run' = [page |-> "risk", event |-> "risk", counted |-> TRUE,
                        low |-> Len(SelectSeq(user_history, IsLow)),
                        med |-> Len(SelectSeq(user_history, IsMedium)),
                        high |-> Len(SelectSeq(user_history, IsHigh))]
    /\ UNCHANGED <<session_user, users, history, log, mail, arg, res>>

(***************************************************************************)
(* Inputs.                                                                 *)
(***************************************************************************)
X(n) == Rep("x", n)
Sp(n) == Rep(" ", n)
Half == MinTextLen \div 2

Alice == "alice@example.com"
Bob == "bob@example.com"

\* documents of the dashboard runs: all clauses present; nothing present;
\* the termination clause missing
DocLow == <<"t"," ","c"," ","i"," ","g","l"," ","p"," ","l","l",".">> \o X(8)
DocHigh == X(MinTextLen) \o <<".">>
DocMedium == <<"C"," ","I",".","G","B"," ","P","!","L","L","?">> \o X(MinTextLen)

\* what the user of the dashboard has at hand
AppManuals == {<<>>, DocHigh}
AppUploads == {NoFile, Pdf("scan.pdf", <<>>, <<X(Half)>>, 2)}
CompareUploads == {NoFile, Pdf("v1.pdf", <<"t", " ", "c">>, <<>>, 1),
                   Pdf("v2.pdf", <<"C", " ", "p">>, <<>>, 1)}

\* what the users of the history pages have at hand
ReportManuals == {DocLow, DocHigh}
ReportUploads == {NoFile, Pdf("contract.pdf", DocMedium, <<>>, 1)}

EmptyStore == [e \in {} |-> <<>>]

(***************************************************************************)
(* The dashboard: accounts, session, pages.                                *)
(***************************************************************************)
Init ==
    /\ session_user = NoUser
    /\ users = EmptyStore
    /\ history = EmptyStore
    /\ log = <<>>
    /\ mail = <<>>
    /\ run = [page |-> "login", event |-> "open"]
    /\ arg = NoArg
    /\ res = NoRes

AnalyzePage(uploads, manuals, cap) ==
    /\ HistoryTotal < cap
    /\ \E u \in uploads, m \in manuals : AnalyzeDocument(u, m)
    /\ UNCHANGED <<arg, res>>

ComparePage ==
    /\ \E f1 \in CompareUploads, f2 \in CompareUploads : CompareDocuments(f1, f2)
    /\ UNCHANGED <<arg, res>>

Next ==
    \/ \E e \in Emails, pw \in Passwords : Login(e, pw)
    \/ \E e \in Emails, pw \in Passwords : Register(e, pw)
    \/ \E e \in Emails, pw \in Passwords : ResetPassword(e, pw)
    \/ Logout
    \/ AnalyzePage(AppUploads, AppManuals, MaxSaved)
    \/ ComparePage
    \/ Reports
    \/ RiskAnalysis

Spec == Init /\ [][Next]_vars

(***************************************************************************)
(* The history pages: two registered users analysing documents.            *)
(***************************************************************************)
InitHistory ==
    /\ session_user = NoUser
    /\ users = Put(Put(EmptyStore, Alice, hash_password(PwStrongA)),
                   Bob, hash_password(PwStrongB))
    /\ history = EmptyStore
    /\ log = << <<"User Registered", Alice>>, <<"User Registered", Bob>> >>
    /\ mail = << [subject |-> "New User Registered", email |-> Alice],
                 [subject |-> "New User Registered", email |-> Bob] >>
    /\ run = AuthRun("register", Bob, PwStrongB, "Registered! Please login.")
    /\ arg = NoArg
    /\ res = NoRes

NextHistory ==
    \/ Login(Alice, PwStrongA)
    \/ Login(Bob, PwStrongB)
    \/ Logout
    \/ AnalyzePage(ReportUploads, ReportManuals, MaxHistory)
    \/ Reports
    \/ RiskAnalysis

SpecHistory == InitHistory /\ [][NextHistory]_vars

(***************************************************************************)
(* One run of the Analyze Document page on every kind of input.            *)
(***************************************************************************)
FlowManuals ==
    {Sp(l) \o X(m) \o Sp(t) :
        l \in 0..MaxPad, t \in 0..MaxPad,
        m \in {0, 1, MinTextLen - 2, MinTextLen - 1, MinTextLen}}

FlowDigitals == {<<>>, X(OcrThreshold - 1), X(OcrThreshold), Sp(OcrThreshold)}

PageTexts == {X(Half), Sp(1) \o X(Half - 1) \o Sp(1), X(MinTextLen)}

PageSeqs == UNION {[1..n -> PageTexts] : n \in 0..MaxPages}

FlowUploads ==
    UNION {{Pdf("scan.pdf", d, Tuple(p), f) : d \in FlowDigitals, f \in 0..(Len(p) + 1)} :
              p \in PageSeqs}

FlowArgs ==
    {[kind |-> "analyze", uploaded |-> NoFile, manual_text |-> m] : m \in FlowManuals}
    \cup {[kind |-> "analyze", uploaded |-> u, manual_text |-> m] :
             u \in FlowUploads, m \in {<<>>, X(MinTextLen + 1)}}

\* Alice has registered and logged in
LoggedIn ==
    /\ session_user = Alice
    /\ users = Put(EmptyStore, Alice, hash_password(PwStrongA))
    /\ history = EmptyStore
    /\ log = << <<"User Registered", Alice>>, <<"User Logged In", Alice>> >>
    /\ mail = << [subject |-> "New User Registered", email |-> Alice],
                 [subject |-> "User Logged In", email |-> Alice] >>
    /\ run = FirstDashboardRun(Alice, PwStrongA)
    /\ res = NoRes

InitAnalyze == LoggedIn /\ arg \in FlowArgs

AnalyzeRun ==
    /\ res.kind = "none"
    /\ AnalyzeDocument(arg.uploaded, arg.manual_text)
    /\ res' = [kind |-> "done"]
    /\ UNCHANGED arg

SpecAnalyze == InitAnalyze /\ [][AnalyzeRun]_vars

(***************************************************************************)
(* One run of the Compare Documents page on every pair of short texts.     *)
(***************************************************************************)
CmpChars == {"a", "A", "b", " "}
CmpTexts == UNION {[1..n -> CmpChars] : n \in 0..MaxCmpLen}

InitCompare ==
    /\ LoggedIn
    /\ arg \in {[kind |-> "compare", t1 |-> Tuple(a), t2 |-> Tuple(b)] :
                   a \in CmpTexts, b \in CmpTexts}

CompareRun ==
    /\ res.kind = "none"
    /\ CompareDocuments(Pdf("first.pdf", arg.t1, <<>>, 1),
                        Pdf("second.pdf", arg.t2, <<>>, 1))
    /\ res' = [kind |-> "done"]
    /\ UNCHANGED arg

SpecCompare == InitCompare /\ [][CompareRun]_vars

(***************************************************************************)
(* The engine functions on their own.                                      *)
(***************************************************************************)
Idle ==
    /\ session_user = NoUser
    /\ users = EmptyStore
    /\ history = EmptyStore
    /\ log = <<>>
    /\ mail = <<>>
    /\ run = [page |-> "login", event |-> "open"]
    /\ res = NoRes

Apply(result) ==
    /\ res.kind = "none"
    /\ res' = result
    /\ UNCHANGED <<session_user, users, history, log, mail, run, arg>>

\* summarize_text(text, n), and the call of line 235
Segments == {<<"x", ".">>, <<"y", " ", "y", "!">>, <<" ", "?", "a", " ", "z">>}
SummaryTexts == {Concat(Tuple(p)) : p \in UNION {[1..k -> Segments] : k \in 0..MaxSentences}}

InitSummarize ==
    /\ Idle
    /\ arg \in {[kind |-> "summarize", text |-> t, n |-> n] :
                   t \in SummaryTexts, n \in 1..MaxN}

Summarize ==
    Apply([kind |-> "summary",
           general |-> summarize_text(arg.text, arg.n),
           app |-> AppSummary(arg.text)])

SpecSummarize == InitSummarize /\ [][Summarize]_vars

\* detect_clauses_with_excerpts(text) and the boxes the page shows for it
ClauseChars == {"t", "i", "g", "l", "p", "C"}
ClauseTexts == UNION {[1..n -> ClauseChars] : n \in 0..MaxClauseTextLen}

InitClauses ==
    /\ Idle
    /\ arg \in {[kind |-> "detect", text |-> Tuple(t)] : t \in ClauseTexts}

DetectAndRender ==
    LET clauses == detect_clauses_with_excerpts(arg.text)
    IN  Apply([kind |-> "clauses", clauses |-> clauses,
               boxes |-> RenderClauses(clauses)])

SpecClauses == InitClauses /\ [][DetectAndRender]_vars

\* the boxes of lines 275-291 for any mapping the page may be handed
ExcerptSamples ==
    {<<>>, X(1), X(ExcerptCap - 1), X(ExcerptCap), X(ExcerptCap + 1),
     X(ExcerptCap) \o Marker}
InfoSamples == [found : BOOLEAN, excerpt : ExcerptSamples]

InitExcerpt ==
    /\ Idle
    /\ arg \in {[kind |-> "render",
                 clauses |-> << [clause |-> CatalogNames[1], info |-> a],
                                [clause |-> CatalogNames[2], info |-> b] >>] :
                   a \in InfoSamples, b \in InfoSamples}

Render == Apply([kind |-> "boxes", boxes |-> RenderClauses(arg.clauses)])

SpecExcerpt == InitExcerpt /\ [][Render]_vars

\* assess_risk on two clause-result sets
FoundFlags == [1..Len(Catalog) -> BOOLEAN]

ResultsFor(flags) ==
    Tuple([k \in 1..Len(Catalog) |->
              [clause |-> Catalog[k].name,
               info |-> [found |-> flags[k],
                         excerpt |-> IF flags[k] THEN Catalog[k].patterns[1] ELSE <<>>]]])

\* line 234
AppRisk(clauses) ==
    LET r == assess_risk(clauses) IN [risk_level |-> r[1], risk_comment |-> r[2]]

InitRisk ==
    /\ Idle
    /\ arg \in {[kind |-> "risk", a |-> a, b |-> b] : a \in FoundFlags, b \in FoundFlags}

Assess ==
    Apply([kind |-> "risk",
           a |-> AppRisk(ResultsFor(arg.a)),
           b |-> AppRisk(ResultsFor(arg.b))])

SpecRisk == InitRisk /\ [][Assess]_vars

(***************************************************************************)
(* Properties.                                                             *)
(***************************************************************************)
AnalyzeRan == run.page = "analyze" /\ run.event = "analyze"

TextCalls == {"detect_contract_type", "detect_clauses_with_excerpts", "summarize_text"}

\* C1: a run of the Analyze page that acquired a text shorter than 20
\* characters (after any OCR fallback) reports the error, calls none of the
\* engine functions and saves nothing; every text handed to classification,
\* clause detection or summarization has at least 20 characters.
C1_InsufficientTextSignaled ==
    (AnalyzeRan /\ run.outcome \in {"error", "analyzed"}) =>
        /\ Len(run.text) < MinTextLen =>
              /\ run.outcome = "error"
              /\ run.msg = "Could not extract readable text."
              /\ run.calls = <<>>
              /\ history = EmptyStore
        /\ \A k \in 1..Len(run.calls) :
              run.calls[k][1] \in TextCalls => Len(run.calls[k][2]) >= MinTextLen

\* a scanned PDF whose OCR text is still too short: the run ends with the error
C1_Witness ==
    /\ AnalyzeRan
    /\ run.outcome = "error"
    /\ run.uploaded.present
    /\ run.ocr_calls = 1
    /\ Len(run.text) > 0
    /\ Len(run.text) < MinTextLen

OcrExpected(u) == u.present /\ Len(u.digital) < OcrThreshold
PagesRead(u) == {k \in 1..Len(u.pages) : k < u.fail_at}
OcrResult(u) == strip(Concat(PickAscending(u.pages, PagesRead(u))))

\* C7: OCR runs exactly when a PDF was uploaded and digital extraction gave
\* fewer than 20 characters, once at most; with a PDF the pasted text is
\* ignored, and pasted text never starts OCR; an OCR exception is not passed
\* on, the stripped text read so far is the text of the run, which then is
\* analysed (20 characters or more) or ends with the error.
C7_TextAcquisition ==
    AnalyzeRan =>
        LET u == run.uploaded
        IN  /\ run.ocr_calls = (IF OcrExpected(u) THEN 1 ELSE 0)
            /\ run.outcome # "idle" =>
                  /\ run.outcome \in {"analyzed", "error"}
                  /\ run.text = (IF ~u.present THEN run.manual_text
                                 ELSE IF OcrExpected(u) THEN OcrResult(u)
                                 ELSE u.digital)
                  /\ (run.outcome = "analyzed") <=> (Len(run.text) >= MinTextLen)
                  /\ run.ocr_failed <=> (OcrExpected(u) /\ u.fail_at <= Len(u.pages))

\* OCR raised on the second page; the first page's text is kept and analysed,
\* the pasted text is not used
C7_Witness ==
    /\ AnalyzeRan
    /\ run.uploaded.present
    /\ Len(run.uploaded.pages) = 2
    /\ run.uploaded.fail_at = 2
    /\ run.ocr_calls = 1
    /\ run.ocr_failed
    /\ run.outcome = "analyzed"
    /\ run.manual_text # <<>>
    /\ run.text # run.manual_text

\* C6: the detector gives one result per catalog definition, in catalog
\* order, wherever the matches are in the text; the page shows the boxes in
\* that order.
C6_ClauseOrder ==
    res.kind = "clauses" =>
        /\ Len(res.clauses) = Len(Catalog)
        /\ Len(res.boxes) = Len(Catalog)
        /\ \A k \in 1..Len(Catalog) :
              /\ res.clauses[k].clause = Catalog[k].name
              /\ res.boxes[k].clause = Catalog[k].name
              /\ (res.boxes[k].status = "Found") <=> res.clauses[k].info.found

\* a later clause of the catalog matches earlier in the text than an earlier
\* one, and some clause is missing
C6_Witness ==
    /\ res.kind = "clauses"
    /\ \E j \in 1..Len(Catalog), k \in 1..Len(Catalog) :
          /\ j < k
          /\ res.clauses[j].info.found
          /\ res.clauses[k].info.found
          /\ FirstMatch(CaseFold(arg.text), Catalog[k])
                < FirstMatch(CaseFold(arg.text), Catalog[j])
    /\ \E m \in 1..Len(Catalog) : res.boxes[m].status = "Missing"

ClaimedExcerpt(info) ==
    IF ~info.found THEN <<>>
    ELSE IF Len(info.excerpt) > ExcerptCap
    THEN Prefix(info.excerpt, ExcerptCap) \o Marker
    ELSE info.excerpt

\* C2: the excerpt shown is empty for a clause not found; for a found clause
\* it is at most 200 characters of the excerpt, with the continuation marker
\* exactly when the excerpt is longer than 200 characters.
C2_MarkerOnlyWhenTruncated ==
    res.kind = "boxes" =>
        \A k \in 1..Len(res.boxes) :
            res.boxes[k].excerpt = ClaimedExcerpt(arg.clauses[k].info)

Rank(level) == CASE level = "Low" -> 1 [] level = "Medium" -> 2 [] level = "High" -> 3

CriticalIdx == {k \in 1..Len(Catalog) : Catalog[k].criticality = "Critical"}
MissingCritical(flags) == {k \in CriticalIdx : ~flags[k]}
SameStandard(a, b) == \A k \in (1..Len(Catalog)) \ CriticalIdx : a[k] = b[k]

\* C5: of two clause-result sets with the same standard clauses found, the
\* one with more missing critical clauses is never assessed lower; a set
\* missing every critical clause is High, each of them named in the rationale.
C5_RiskMonotone ==
    res.kind = "risk" =>
        /\ (/\ SameStandard(arg.a, arg.b)
            /\ Cardinality(MissingCritical(arg.b)) > Cardinality(MissingCritical(arg.a)))
              => Rank(res.b.risk_level) >= Rank(res.a.risk_level)
        /\ MissingCritical(arg.a) = CriticalIdx =>
              /\ res.a.risk_level = "High"
              /\ \A k \in CriticalIdx :
                    \E i \in 1..Len(res.a.risk_comment) :
                        res.a.risk_comment[i] = Catalog[k].name

\* one more critical clause missing raises Medium to High
C5_Witness ==
    /\ res.kind = "risk"
    /\ SameStandard(arg.a, arg.b)
    /\ MissingCritical(arg.a) \subseteq MissingCritical(arg.b)
    /\ Cardinality(MissingCritical(arg.b)) = Cardinality(MissingCritical(arg.a)) + 1
    /\ res.a.risk_level = "Medium"
    /\ res.b.risk_level = "High"

RECURSIVE IsSubsequence(_, _)
IsSubsequence(a, b) ==
    IF a = <<>> THEN TRUE
    ELSE IF b = <<>> THEN FALSE
    ELSE IF Head(a) = Head(b) THEN IsSubsequence(Tail(a), Tail(b))
    ELSE IsSubsequence(a, Tail(b))

\* C4: summarize(text, n) with n >= 1 gives min(n, number of sentences)
\* sentences, in the order they have in the text; the call of the Analyze
\* page, n = 4, gives at most 4 in that order.
C4_SummaryBoundAndOrder ==
    res.kind = "summary" =>
        LET ss == Sentences(arg.text)
        IN  /\ Len(res.general) = Min({arg.n, Len(ss)})
            /\ IsSubsequence(res.general, ss)
            /\ Len(res.app) = Min({SummarySentences, Len(ss)})
            /\ IsSubsequence(res.app, ss)

\* five sentences, four kept, and a kept sentence stands before one that
\* scores higher
C4_Witness ==
    /\ res.kind = "summary"
    /\ Len(Sentences(arg.text)) > SummarySentences
    /\ Len(res.app) = SummarySentences
    /\ \E i \in 1..(Len(res.app) - 1) :
          SentenceScore(Words(arg.text), res.app[i])
              < SentenceScore(Words(arg.text), res.app[i + 1])

CompareShown == run.page = "compare" /\ run.shown
HasTokens(t) == Tokens(t) # <<>>
ShareNoTokens(a, b) ==
    \A i \in 1..Len(Tokens(a)), j \in 1..Len(Tokens(b)) : Tokens(a)[i] # Tokens(b)[j]

DashboardPages == {"analyze", "compare", "reports", "risk"}

SessionGate ==
    /\ run.page \in DashboardPages => session_user # NoUser
    /\ run.page = "login" => session_user = NoUser

SessionStep ==
    /\ (session_user' # session_user /\ session_user' # NoUser) =>
          /\ session_user = NoUser
          /\ run'.event = "login"
          /\ run'.email = session_user'
          /\ session_user' \in DOMAIN users
          /\ users[session_user'] = hash_password(run'.pw)
    /\ (/\ session_user = NoUser
        /\ run'.event = "login"
        /\ ~(/\ run'.email \in DOMAIN users
             /\ users[run'.email] = hash_password(run'.pw)))
          => session_user' = NoUser /\ run'.page = "login"
    /\ run'.event = "logout" => session_user' = NoUser /\ run'.page = "login"

\* C8: a dashboard page is rendered only with "user" in the session; "user"
\* is set only by a login whose email and password match the store, and to
\* that email; a failed login leaves the session without user; Logout
\* removes "user" and the login page follows.
C8_SessionGating == []SessionGate /\ [][SessionStep]_vars

\* logged in, on a dashboard page, after a reset of the password
C8_Witness ==
    /\ session_user = Alice
    /\ run.page = "reports"
    /\ \E i \in 1..Len(log) : log[i] = <<"Password Reset", Alice>>

AccountStep ==
    /\ DOMAIN users \subseteq DOMAIN users'
    /\ (run'.event = "register" /\ session_user = NoUser /\ run'.page = "login") =>
          /\ run'.email \in DOMAIN users =>
                /\ users' = users
                /\ log' = log
                /\ mail' = mail
                /\ run'.msg # "Registered! Please login."
          /\ run'.msg = "Registered! Please login." =>
                /\ run'.email \notin DOMAIN users
                /\ run'.email \in DOMAIN users'
    /\ (run'.event = "reset" /\ run'.email \notin DOMAIN users) =>
          /\ users' = users
          /\ run'.msg # "Password reset successful!"

\* C9: register_user on a registered email changes nothing (hash, log,
\* notifications) and reports failure, so an email is registered with
\* success once at most; reset_password on an unregistered email creates no
\* account; no step removes an email from the store.
C9_AccountStore == [][AccountStep]_vars

\* a second registration of a registered email, with another password, refused
C9_Witness ==
    /\ run.page = "login"
    /\ run.event = "register"
    /\ run.msg = "Email already registered."
    /\ run.email \in DOMAIN users
    /\ users[run.email] # hash_password(run.pw)

HistoryPages ==
    /\ run.page = "reports" => run.items = HistoryOf(session_user)
    /\ (run.page = "risk" /\ run.counted) =>
          run.low + run.med + run.high = Len(HistoryOf(session_user))
    /\ (run.page = "risk" /\ ~run.counted) => HistoryOf(session_user) = <<>>

HistoryStep ==
    IF run'.page = "analyze" /\ run'.event = "analyze" /\ run'.outcome = "analyzed"
    THEN /\ DOMAIN history' = DOMAIN history \cup {session_user}
         /\ \A u \in DOMAIN history' :
               IF u = session_user
               THEN history'[u] =
                        Append(HistoryOf(u),
                               [file |-> IF run'.uploaded.present
                                         THEN run'.uploaded.name ELSE "Manual Text",
                                type |-> run'.doc_type,
                                risk |-> run'.risk_level])
               ELSE history'[u] = history[u]
    ELSE history' = history

\* C10: a successful analysis appends one entry {file, type, risk}, with the
\* type and risk the engine returned, to the end of the user's list and
\* leaves the other lists as they are; no other step changes the history;
\* Reports and Risk Analysis read the list of the logged-in user, and the
\* three risk counts add up to its length.
C10_HistoryAppendOnly == []HistoryPages /\ [][HistoryStep]_vars

\* Bob reads his reports while Alice has two entries of her own
C10_Witness ==
    /\ session_user = Bob
    /\ run.page = "reports"
    /\ Len(HistoryOf(Bob)) = 1
    /\ Len(HistoryOf(Alice)) = 2
    /\ HistoryOf(Alice)[1] # HistoryOf(Alice)[2]

====
